---- MODULE Spec2Model ----
(***************************************************************************)
(* Model of the result-reporting subsystem of instrumentation-infra        *)
(* (src/infra/report.py): BenchmarkRunner (run, _print_footer, report)     *)
(* and BenchmarkReporter (_parse_metadata).                                *)
(*                                                                         *)
(* Text is modelled at character level: a line is a sequence of            *)
(* one-character strings, a file is a sequence of lines.                   *)
(***************************************************************************)
EXTENDS Integers, Sequences, FiniteSets, TLC

(***************************************************************************)
(* Bounds of the model.                                                    *)
(***************************************************************************)
\* number of job handles
NJobs == 2
\* number of BenchmarkRunner objects (each with its own self.outfile)
NRunners == 2
\* longest text (in lines) handed to _parse_metadata
MaxLines == 4
\* most entries of a record handed to BenchmarkRunner.report
MaxRecLen == 2
\* number of run roots handed to parse_rundirs
NRoots == 2
\* number of run directories asked for (calls of os.makedirs)
MaxWriters == 3

(***************************************************************************)
(* Strings.                                                                *)
(***************************************************************************)
\* report.py:15  prefix = '[setup-report]'
prefix == <<"[", "s", "e", "t", "u", "p", "-", "r", "e", "p", "o", "r", "t", "]">>

\* characters str.rstrip() removes (those that occur in the model's alphabet)
Whitespace == {" ", "\n"}

\* s[n:]
Slice(s, n) == SubSeq(s, n + 1, Len(s))

\* s.startswith(p)
StartsWith(s, p) == Len(s) >= Len(p) /\ SubSeq(s, 1, Len(p)) = p

\* s.rstrip()
RECURSIVE RStrip(_)
RStrip(s) ==
    IF s = <<>> THEN s
    ELSE IF s[Len(s)] \in Whitespace THEN RStrip(SubSeq(s, 1, Len(s) - 1))
    ELSE s

\* index of the first occurrence of ': ' in s, 0 when there is none
FindSep(s) ==
    LET hits == {i \in 1..(Len(s) - 1) : s[i] = ":" /\ s[i + 1] = " "}
    IN  IF hits = {} THEN 0 ELSE CHOOSE i \in hits : \A k \in hits : i <= k

\* s.split(': ', 1): one piece when ': ' does not occur, else two
SplitSep(s) ==
    LET i == FindSep(s)
    IN  IF i = 0 THEN <<s>>
        ELSE <<SubSeq(s, 1, i - 1), SubSeq(s, i + 2, Len(s))>>

\* the lines print() produces for the characters s: a "\n" inside s ends a line
RECURSIVE SplitNL(_)
SplitNL(s) ==
    LET nl == {i \in 1..Len(s) : s[i] = "\n"}
    IN  IF nl = {} THEN <<s>>
        ELSE LET i == CHOOSE i \in nl : \A k \in nl : i <= k
             IN  <<SubSeq(s, 1, i - 1)>> \o SplitNL(Slice(s, i))

RECURSIVE Flatten(_)
Flatten(ss) == IF ss = <<>> THEN <<>> ELSE Head(ss) \o Flatten(Tail(ss))

(***************************************************************************)
(* Dictionaries: a dict is a sequence of <<key, value>> pairs with         *)
(* distinct keys, in insertion order.                                      *)
(***************************************************************************)
DictKeys(d) == {d[i][1] : i \in 1..Len(d)}

DictGet(d, k) == LET i == CHOOSE i \in 1..Len(d) : d[i][1] = k IN d[i][2]

\* first value stays (a dict that does not overwrite)
DictPutKeepFirst(d, k, v) ==
    IF k \in DictKeys(d) THEN d ELSE Append(d, <<k, v>>)

\* d[k] = v: overwrite in place, or insert at the end
DictPut(d, k, v) ==
    IF k \in DictKeys(d)
    THEN [i \in 1..Len(d) |-> IF d[i][1] = k THEN <<k, v>> ELSE d[i]]
    ELSE Append(d, <<k, v>>)

\* d1 == d2 of two dicts: same keys, same values, whatever the order
DictEq(d1, d2) ==
    /\ DictKeys(d1) = DictKeys(d2)
    /\ \A k \in DictKeys(d1) : DictGet(d1, k) = DictGet(d2, k)

(***************************************************************************)
(* BenchmarkRunner.report: the lines of one metadata block.                *)
(***************************************************************************)
\* print(a, b): a + ' ' + b, and print(a, b, c): a + ' ' + b + ' ' + c
Print2(a, b) == a \o <<" ">> \o b
Print3(a, b, c) == a \o <<" ">> \o b \o <<" ">> \o c

WordBegin == <<"b", "e", "g", "i", "n">>
WordEnd == <<"e", "n", "d">>
WordTarget == <<"t", "a", "r", "g", "e", "t", ":">>
WordInstance == <<"i", "n", "s", "t", "a", "n", "c", "e", ":">>

\* a report(data) that leaves the instance line out
ReportPrintsNoInstance(targetName, instanceName, data) ==
    <<Print2(prefix, WordBegin),
      Print3(prefix, WordTarget, targetName)>>
    \o [i \in 1..Len(data) |-> Print3(prefix, data[i][1] \o <<":">>, data[i][2])]
    \o <<Print2(prefix, WordEnd)>>

\* the print() calls of report(data), in order: what each writes before its "\n"
ReportPrints(targetName, instanceName, data) ==
    <<Print2(prefix, WordBegin),
      Print3(prefix, WordTarget, targetName),
      Print3(prefix, WordInstance, instanceName)>>
    \o [i \in 1..Len(data) |-> Print3(prefix, data[i][1] \o <<":">>, data[i][2])]
    \o <<Print2(prefix, WordEnd)>>

\* the lines a reader of the written text sees
ReportLines(targetName, instanceName, data) ==
    LET ps == ReportPrints(targetName, instanceName, data)
    IN  Flatten([i \in 1..Len(ps) |-> SplitNL(ps[i])])

(***************************************************************************)
(* BenchmarkReporter._parse_metadata.                                      *)
(***************************************************************************)
\* one iteration of `for line in f`, on the state st = [err, meta, warnings]
ParseLine(st, path, rawline) ==
    LET line == RStrip(rawline)
    IN  IF st.err \/ ~StartsWith(line, prefix) THEN st
        ELSE LET parts == SplitSep(Slice(line, Len(prefix) + 1))
             IN  IF Len(parts) # 2
                 THEN [st EXCEPT !.err = TRUE]   \* ValueError: cannot unpack
                 ELSE [err |-> FALSE,
                       meta |-> DictPut(st.meta, parts[1], parts[2]),
                       warnings |-> IF parts[1] \in DictKeys(st.meta)
                                    THEN Append(st.warnings, <<parts[1], path>>)
                                    ELSE st.warnings]

RECURSIVE ParseFrom(_, _, _)
ParseFrom(st, path, lines) ==
    IF lines = <<>> THEN st
    ELSE ParseFrom(ParseLine(st, path, Head(lines)), path, Tail(lines))

\* result of _parse_metadata(path) on a file holding `lines`: err is TRUE when
\* the call raised, meta is the dict it returns otherwise, warnings are the
\* ctx.log.warning calls it made
ParseMetadata(path, lines) ==
    ParseFrom([err |-> FALSE, meta |-> <<>>, warnings |-> <<>>], path, lines)

(***************************************************************************)
(* State.                                                                  *)
(***************************************************************************)
VARIABLES
    call,       \* per runner: how its run() was called (pool or not, onsuccess or not)
    attr,       \* per job handle: the runner that launched it and the attributes it exposes
    pc,         \* per job handle: where the job, and its completion continuation, is
    fs,         \* content of each file: 0 is ctx.paths.runlog, r >= 1 is runner r's self.outfile
    stream,     \* what was written to the process's original standard output
    sysStdout,  \* sys.stdout: 0 is the original stream, j >= 1 the file opened by job j's flush
    saved,      \* per job: the sys.stdout its redirect_stdout saved on entry
    hOpen,      \* per job: the file object its flush opened for appending is open
    hBuf,       \* per job: the lines buffered in that file object, written when it closes
    pos,        \* per job: how many print() calls of report() have run
    flushes,    \* per job: number of calls of _print_footer(job)
    onsCalled,  \* per job: number of calls of the caller's onsuccess(job)
    exc,        \* per job: the exception that escaped BenchmarkRunner.run / callback
    text,       \* codec: the lines handed to _parse_metadata
    data,       \* codec: the dict handed to report()
    result,     \* codec: what _parse_metadata did
    cphase,     \* codec: which operation was applied
    runnerSet,  \* per job handle: job.runner has been assigned
    rundirs,    \* aggregator: per run root, what <root>/<target> is and holds
    inside,     \* aggregator: the entries of an instance directory
    order,      \* aggregator: os.listdir returns names backwards
    instance_names, \* aggregator: names of self.instances
    parsed,     \* aggregator: what parse_rundirs did
    rend,       \* aggregator: the call of report(mode) and where it is
    dirs,       \* namer: the directories that exist
    made        \* namer: per constructed BenchmarkRunner, its inputs and its paths

runnerVars == <<call, attr, pc, fs, stream, sysStdout, saved, hOpen, hBuf, pos,
                flushes, onsCalled, exc, runnerSet>>
codecVars == <<text, data, result, cphase>>
aggVars == <<rundirs, inside, order, instance_names, parsed, rend>>
namerVars == <<dirs, made>>
toolVars == <<aggVars, namerVars>>
vars == <<call, attr, pc, fs, stream, sysStdout, saved, hOpen, hBuf, pos,
          flushes, onsCalled, exc, text, data, result, cphase, runnerSet,
          rundirs, inside, order, instance_names, parsed, rend, dirs, made>>

Jobs == 1..NJobs
Runners == 1..NRunners
\* file names: the shared run-log and one output file per runner
RunLog == 0
Paths == {RunLog} \cup Runners

DigitChars == <<"1", "2", "3", "4", "5", "6", "7", "8", "9">>
Digit(n) == DigitChars[n]

\* self.target.name and self.instance.name of runner r
TargetName == <<"t">>
InstanceName(r) == <<"i", Digit(r)>>

\* the raw output a job's process leaves in its declared output file
RawOutput == <<"o", "k">>

\* the dict target.report_result hands to runner.report for job j: one record
\* per job, distinct from every other job's
RecOf(j) == << << <<"k">>, <<Digit(j)>> >> >>

\* run(cmd) / run(cmd, pool) / run(cmd, pool, onsuccess)
Calls == {[pool |-> FALSE, onsuccess |-> FALSE],
          [pool |-> TRUE, onsuccess |-> FALSE],
          [pool |-> TRUE, onsuccess |-> TRUE]}

Attrs == [runner : Runners, hasOutfile : BOOLEAN, teeout : BOOLEAN]

NoResult == [err |-> FALSE, meta |-> <<>>, warnings |-> <<>>]

\* every job is launched and running, none has completed, nothing is written
IdleRunner ==
    /\ pc = [j \in Jobs |-> "running"]
    /\ fs = [p \in Paths |-> <<>>]
    /\ stream = <<>>
    /\ sysStdout = 0
    /\ saved = [j \in Jobs |-> 0]
    /\ hOpen = [j \in Jobs |-> FALSE]
    /\ hBuf = [j \in Jobs |-> <<>>]
    /\ pos = [j \in Jobs |-> 0]
    /\ flushes = [j \in Jobs |-> 0]
    /\ onsCalled = [j \in Jobs |-> 0]
    /\ exc = [j \in Jobs |-> "none"]
    /\ runnerSet = [j \in Jobs |-> FALSE]

IdleCodec ==
    /\ text = <<>>
    /\ data = <<>>
    /\ result = NoResult
    /\ cphase = "init"

\* parse_rundirs has not been called
NoParse == [done |-> FALSE, instance_dirs |-> <<>>, warnings |-> <<>>,
            out |-> <<>>, exc |-> "none"]

\* report(mode) has not been called
NoRender == [pc |-> "idle", mode |-> <<>>, body |-> "none", before |-> "terminal",
             stdout |-> "terminal", saved |-> "none", ran |-> FALSE,
             exc |-> "none", msg |-> <<>>, sink |-> <<>>, escaped |-> <<>>]

IdleAgg ==
    /\ rundirs = <<>>
    /\ inside = <<>>
    /\ order = FALSE
    /\ instance_names = <<>>
    /\ parsed = NoParse
    /\ rend = NoRender

\* no BenchmarkRunner has been constructed, no directory exists
IdleNamer ==
    /\ dirs = {}
    /\ made = <<>>

\* (has output file, tee flag) as a number, to order job handles by
AttrCode(a) == (IF a.hasOutfile THEN 2 ELSE 0) + (IF a.teeout THEN 1 ELSE 0)

\* The jobs, their attributes and the calls that launched them are the inputs.
\* Job handles are numbered in the order of their attributes, runners in the
\* order their first job appears, and a runner without a job was called in the
\* first way, so that no two initial states differ only in names.
Init ==
    /\ call \in [Runners -> Calls]
    /\ attr \in [Jobs -> Attrs]
    /\ \A j \in Jobs \ {1} : AttrCode(attr[j - 1]) <= AttrCode(attr[j])
    /\ \A j \in Jobs : \A r \in 1..(attr[j].runner - 1) :
           \E k \in 1..(j - 1) : attr[k].runner = r
    /\ \A r \in Runners :
           (\A j \in Jobs : attr[j].runner # r)
               => call[r] = [pool |-> FALSE, onsuccess |-> FALSE]
    /\ IdleRunner
    /\ IdleCodec
    /\ IdleAgg
    /\ IdleNamer

(***************************************************************************)
(* BenchmarkRunner.run and _print_footer, one action per statement.        *)
(***************************************************************************)
\* a line as it sits in a file or stream; `by` records which job's flush (or
\* process) wrote it, and is not part of the file's bytes
Tagged(j, lines) == [i \in 1..Len(lines) |-> [by |-> j, text |-> lines[i]]]

\* the tee flag is tested before the output file
DestinationTeeFirst(a) ==
    IF a.teeout THEN "tee" ELSE IF a.hasOutfile THEN "file" ELSE "runlog"

\* the branch _print_footer takes for a job with attributes a
Destination(a) ==
    IF a.hasOutfile THEN "file" ELSE IF a.teeout THEN "tee" ELSE "runlog"

\* the file a flush appends to ("tee" appends to no file)
DestPath(a) == IF Destination(a) = "file" THEN a.runner ELSE RunLog

\* the print() calls of job j's report_result -> runner.report(data)
JobPrints(j) == ReportPrints(TargetName, InstanceName(attr[j].runner), RecOf(j))

\* the job's process exits; its raw output is in its declared output file
Complete(j) ==
    /\ pc[j] = "running"
    /\ pc' = [pc EXCEPT ![j] = "completed"]
    /\ fs' = IF attr[j].hasOutfile
             THEN [fs EXCEPT ![attr[j].runner] = @ \o Tagged(j, <<RawOutput>>)]
             ELSE fs
    /\ UNCHANGED <<call, attr, stream, sysStdout, saved, hOpen, hBuf, pos, flushes,
                   onsCalled, exc, codecVars, toolVars, runnerSet>>

\* run() without a pool: `job.runner = self` is the statement between
\* util.run returning the job and self._print_footer(job); with a pool the
\* assignment is made by the loop over the handles (AssignRunner)
AssignSync(j) ==
    runnerSet' = IF call[attr[j].runner].pool THEN runnerSet
                 ELSE [runnerSet EXCEPT ![j] = TRUE]

\* a continuation that goes straight to the caller's onsuccess
EnterSkipFlush(j) ==
    /\ pc[j] = "completed"
    /\ pc' = [pc EXCEPT ![j] = "flushed"]
    /\ UNCHANGED <<call, attr, fs, stream, sysStdout, saved, hOpen, hBuf, pos,
                   flushes, onsCalled, exc, codecVars, toolVars>>
    /\ AssignSync(j)

\* a continuation that calls the caller's onsuccess first and flushes after
EnterOnsuccessFirst(j) ==
    /\ pc[j] = "completed"
    /\ flushes' = [flushes EXCEPT ![j] = @ + 1]
    /\ onsCalled' = [onsCalled EXCEPT ![j] =
                        IF call[attr[j].runner].pool /\ call[attr[j].runner].onsuccess
                        THEN @ + 1 ELSE @]
    /\ pc' = [pc EXCEPT ![j] = CASE Destination(attr[j]) = "file" -> "open_read"
                                 [] Destination(attr[j]) = "tee" -> "report"
                                 [] OTHER -> "open_append"]
    /\ UNCHANGED <<call, attr, fs, stream, sysStdout, saved, hOpen, hBuf, pos,
                   exc, codecVars, toolVars>>
    /\ AssignSync(j)

\* callback(job) starts (pool), or run() goes on after util.run returned (sync):
\* self._print_footer(job) is called and picks its branch
Enter(j) ==
    /\ pc[j] = "completed"
    /\ flushes' = [flushes EXCEPT ![j] = @ + 1]
    /\ pc' = [pc EXCEPT ![j] = CASE Destination(attr[j]) = "file" -> "open_read"
                                 [] Destination(attr[j]) = "tee" -> "report"
                                 [] OTHER -> "open_append"]
    /\ UNCHANGED <<call, attr, fs, stream, sysStdout, saved, hOpen, hBuf, pos,
                   onsCalled, exc, codecVars, toolVars>>
    /\ AssignSync(j)

\* a failed open whose error is swallowed: the flush is given up and the
\* continuation goes on
OpenFailedSwallow(j) ==
    /\ pc' = [pc EXCEPT ![j] = "flushed"]
    /\ UNCHANGED exc

\* open() raised OSError: nothing in run/callback/_print_footer catches it
OpenFailed(j) ==
    /\ pc' = [pc EXCEPT ![j] = "raised"]
    /\ exc' = [exc EXCEPT ![j] = "OSError"]

\* with open(job.outfile) as f: output = f.read()
OpenRead(j) ==
    /\ pc[j] = "open_read"
    /\ \E ok \in BOOLEAN :
          IF ok THEN pc' = [pc EXCEPT ![j] = "open_append"] /\ UNCHANGED exc
          ELSE OpenFailed(j)
    /\ UNCHANGED <<call, attr, fs, stream, sysStdout, saved, hOpen, hBuf, pos,
                   flushes, onsCalled, codecVars, toolVars, runnerSet>>

\* with open(job.outfile, 'a') / open(self.ctx.paths.runlog, 'a') as outfile:
\* only the open of a declared output file is made to fail here
OpenAppend(j) ==
    /\ pc[j] = "open_append"
    /\ \E ok \in (IF Destination(attr[j]) = "file" THEN BOOLEAN ELSE {TRUE}) :
          IF ok
          THEN /\ pc' = [pc EXCEPT ![j] = "redirect"]
               /\ hOpen' = [hOpen EXCEPT ![j] = TRUE]
               /\ UNCHANGED exc
          ELSE OpenFailed(j) /\ UNCHANGED hOpen
    /\ UNCHANGED <<call, attr, fs, stream, sysStdout, saved, hBuf, pos, flushes,
                   onsCalled, codecVars, toolVars, runnerSet>>

\* with redirect_stdout(outfile): __enter__ saves sys.stdout and replaces it
Redirect(j) ==
    /\ pc[j] = "redirect"
    /\ saved' = [saved EXCEPT ![j] = sysStdout]
    /\ sysStdout' = j
    /\ pc' = [pc EXCEPT ![j] = "report"]
    /\ UNCHANGED <<call, attr, fs, stream, hOpen, hBuf, pos, flushes, onsCalled,
                   exc, codecVars, toolVars, runnerSet>>

\* one print() of report(): it writes to whatever sys.stdout is now.  Writing
\* to a closed file raises ValueError, which unwinds the two with-blocks
\* (sys.stdout restored, own file closed and its buffer written) and escapes.
PrintLine(j) ==
    /\ pc[j] = "report"
    /\ pos[j] < Len(JobPrints(j))
    /\ LET lines == Tagged(j, SplitNL(JobPrints(j)[pos[j] + 1]))
           inWith == Destination(attr[j]) # "tee"
       IN  IF sysStdout = 0
           THEN /\ stream' = stream \o lines
                /\ pos' = [pos EXCEPT ![j] = @ + 1]
                /\ UNCHANGED <<pc, hBuf, hOpen, fs, sysStdout, saved, exc>>
           ELSE IF hOpen[sysStdout]
           THEN /\ hBuf' = [hBuf EXCEPT ![sysStdout] = @ \o lines]
                /\ pos' = [pos EXCEPT ![j] = @ + 1]
                /\ UNCHANGED <<pc, stream, hOpen, fs, sysStdout, saved, exc>>
           ELSE /\ pc' = [pc EXCEPT ![j] = "raised"]
                /\ exc' = [exc EXCEPT ![j] = "ValueError"]
                /\ sysStdout' = IF inWith THEN saved[j] ELSE sysStdout
                /\ saved' = [saved EXCEPT ![j] = 0]
                /\ hOpen' = [hOpen EXCEPT ![j] = FALSE]
                /\ hBuf' = [hBuf EXCEPT ![j] = <<>>]
                /\ fs' = IF inWith
                         THEN [fs EXCEPT ![DestPath(attr[j])] = @ \o hBuf[j]]
                         ELSE fs
                /\ pos' = [pos EXCEPT ![j] = 0]
                /\ UNCHANGED stream
    /\ UNCHANGED <<call, attr, flushes, onsCalled, codecVars, toolVars, runnerSet>>

\* report_result returned; redirect_stdout.__exit__ puts the saved stream back
Unredirect(j) ==
    /\ pc[j] = "report"
    /\ pos[j] = Len(JobPrints(j))
    /\ Destination(attr[j]) # "tee"
    /\ sysStdout' = saved[j]
    /\ saved' = [saved EXCEPT ![j] = 0]
    /\ pos' = [pos EXCEPT ![j] = 0]
    /\ pc' = [pc EXCEPT ![j] = "close"]
    /\ UNCHANGED <<call, attr, fs, stream, hOpen, hBuf, flushes, onsCalled,
                   exc, codecVars, toolVars, runnerSet>>

\* the file's with-block ends: the buffered lines are appended in one write
\* and the file is closed; _print_footer returns
Close(j) ==
    /\ pc[j] = "close"
    /\ fs' = [fs EXCEPT ![DestPath(attr[j])] = @ \o hBuf[j]]
    /\ hBuf' = [hBuf EXCEPT ![j] = <<>>]
    /\ hOpen' = [hOpen EXCEPT ![j] = FALSE]
    /\ pc' = [pc EXCEPT ![j] = "flushed"]
    /\ UNCHANGED <<call, attr, stream, sysStdout, saved, pos, flushes, onsCalled,
                   exc, codecVars, toolVars, runnerSet>>

\* the tee branch has no with-block: report_result returns, _print_footer returns
TeeReturn(j) ==
    /\ pc[j] = "report"
    /\ pos[j] = Len(JobPrints(j))
    /\ Destination(attr[j]) = "tee"
    /\ pos' = [pos EXCEPT ![j] = 0]
    /\ pc' = [pc EXCEPT ![j] = "flushed"]
    /\ UNCHANGED <<call, attr, fs, stream, sysStdout, saved, hOpen, hBuf, flushes,
                   onsCalled, exc, codecVars, toolVars, runnerSet>>

\* after _print_footer: callback runs `if onsuccess: onsuccess(job)`; the
\* synchronous path never calls onsuccess
Finish(j) ==
    /\ pc[j] = "flushed"
    /\ onsCalled' = [onsCalled EXCEPT ![j] =
                        IF call[attr[j].runner].pool /\ call[attr[j].runner].onsuccess
                        THEN @ + 1 ELSE @]
    /\ pc' = [pc EXCEPT ![j] = "done"]
    /\ UNCHANGED <<call, attr, fs, stream, sysStdout, saved, hOpen, hBuf, pos,
                   flushes, exc, codecVars, toolVars, runnerSet>>

\* job j's continuation (or synchronous flush) is between its first and its
\* last statement
InContinuation(j) ==
    pc[j] \in {"open_read", "open_append", "redirect", "report", "close", "flushed"}

\* continuations run one at a time: the next one starts when none is running
EnterSerial(j) ==
    /\ \A k \in Jobs : ~InContinuation(k)
    /\ Enter(j)

Step(j) ==
    \/ Complete(j)
    \/ OpenRead(j)
    \/ OpenAppend(j)
    \/ Redirect(j)
    \/ PrintLine(j)
    \/ Unredirect(j)
    \/ Close(j)
    \/ TeeReturn(j)
    \/ Finish(j)

\* completions in any order, continuations one at a time
Next == \E j \in Jobs : EnterSerial(j) \/ Step(j)

Spec == Init /\ [][Next]_vars

\* completions in any order, the statements of different continuations interleaved
NextConc == \E j \in Jobs : Enter(j) \/ Step(j)

\* every run() was given a pool and an onsuccess continuation
InitConc ==
    /\ Init
    /\ \A j \in Jobs : call[attr[j].runner] = [pool |-> TRUE, onsuccess |-> TRUE]

SpecConc == InitConc /\ [][NextConc]_vars

\* one iteration of `for job in pool.run(...)`: job.runner = self; the handles
\* of one runner are iterated in their order
AssignRunner(j) ==
    /\ call[attr[j].runner].pool
    /\ ~runnerSet[j]
    /\ \A k \in 1..(j - 1) : attr[k].runner = attr[j].runner => runnerSet[k]
    /\ runnerSet' = [runnerSet EXCEPT ![j] = TRUE]
    /\ UNCHANGED <<call, attr, pc, fs, stream, sysStdout, saved, hOpen, hBuf, pos,
                   flushes, onsCalled, exc, codecVars, toolVars>>

\* as Next, and the loop over the handles runs while the pool's jobs complete
\* and the continuations are invoked
NextRef == \E j \in Jobs : EnterSerial(j) \/ Step(j) \/ AssignRunner(j)

SpecRef == Init /\ [][NextRef]_vars

(***************************************************************************)
(* The codec on its own: report() and _parse_metadata applied to inputs    *)
(* drawn from bounded sets.                                                *)
(***************************************************************************)
\* the file name _parse_metadata is given
CodecPath == <<"f">>

KeyA == <<"a">>
KeyB == <<"b">>

\* <prefix> <key>: <value>
KVLine(k, v) == Print3(prefix, k \o <<":">>, v)
BeginLine == Print2(prefix, WordBegin)
EndLine == Print2(prefix, WordEnd)

\* the lines a decoded text is made of: ordinary output, a blank line,
\* key/value lines (one with trailing blanks), the two markers, the bare
\* prefix, and the prefix followed by something else than a blank
LineSet ==
    {RawOutput, <<>>,
     KVLine(KeyA, <<"1">>), KVLine(KeyB, <<"2">>), KVLine(KeyA, <<"3">>),
     KVLine(KeyB, <<"2", " ">>),
     BeginLine, EndLine, prefix, prefix \o <<"x", ":", " ", "7">>}

Texts == UNION {[1..n -> LineSet] : n \in 0..MaxLines}

\* keys and values of the records handed to report()
RecKeys == {KeyA, KeyB, <<"a", ":">>}
RecValues == {<<"1">>, <<"2", ":", " ", "3">>, <<"1", " ">>, <<>>, <<"1", "\n", "2">>}

\* dicts of at most MaxRecLen entries
Records ==
    UNION {{d \in [1..n -> RecKeys \X RecValues] :
               \A i, k \in 1..n : i # k => d[i][1] # d[k][1]} : n \in 0..MaxRecLen}

InitCodec ==
    /\ call = [r \in Runners |-> [pool |-> FALSE, onsuccess |-> FALSE]]
    /\ attr = [j \in Jobs |-> [runner |-> 1, hasOutfile |-> FALSE, teeout |-> FALSE]]
    /\ IdleRunner
    /\ IdleCodec
    /\ IdleAgg
    /\ IdleNamer

\* _parse_metadata(path) on some text
Decode ==
    /\ cphase = "init"
    /\ \E t \in Texts :
          /\ text' = t
          /\ result' = ParseMetadata(CodecPath, t)
    /\ cphase' = "decoded"
    /\ UNCHANGED <<data, runnerVars, toolVars>>

\* runner.report(d) into an empty file, then _parse_metadata of that file
RoundTrip ==
    /\ cphase = "init"
    /\ \E d \in Records :
          /\ data' = d
          /\ text' = ReportLines(TargetName, InstanceName(1), d)
          /\ result' = ParseMetadata(CodecPath, ReportLines(TargetName, InstanceName(1), d))
    /\ cphase' = "roundtrip"
    /\ UNCHANGED <<runnerVars, toolVars>>

NextCodec == Decode \/ RoundTrip

SpecCodec == InitCodec /\ [][NextCodec]_vars

(***************************************************************************)
(* BenchmarkReporter.parse_rundirs on a small tree of run roots.           *)
(***************************************************************************)
\* paths are sequences of components; os.path.join appends one
Join(dir, name) == Append(dir, name)

\* the run roots handed to parse_rundirs
RootName(i) == <<"r", Digit(i)>>
Rundir(i) == <<RootName(i)>>

\* the names an entry of <root>/<target> can have, in name order
XName == <<"x">>
YName == <<"y">>
ZName == <<"z">>
InstNames == <<XName, YName, ZName>>

\* a run root: whether <root>/<target> exists, and what each name is inside it
RootLayouts ==
    {[target |-> FALSE, sub |-> [n \in 1..Len(InstNames) |-> "absent"]]}
    \cup {[target |-> TRUE, sub |-> s] :
             s \in [1..Len(InstNames) -> {"absent", "file", "dir"}]}

\* the instance filter: [instance.name for instance in self.instances]
Filters == {<<>>, <<YName>>, <<ZName, XName>>}

\* entries of an instance directory: a result file without metadata, one with
\* a key/value line, one as BenchmarkRunner leaves it, and a subdirectory
EPlain == [name |-> <<"a">>, dir |-> FALSE, lines |-> <<RawOutput>>]
EKeyed == [name |-> <<"b">>, dir |-> FALSE,
           lines |-> <<RawOutput, KVLine(KeyA, <<"1">>)>>]
EWritten == [name |-> <<"c">>, dir |-> FALSE,
             lines |-> <<RawOutput>> \o ReportLines(TargetName, XName, RecOf(1))]
ESub == [name |-> <<"d">>, dir |-> TRUE, lines |-> <<>>]

\* what an instance directory holds, in name order
Listings == {<<>>, <<EPlain>>, <<EPlain, EKeyed>>, <<EKeyed, ESub>>, <<EWritten>>}

RECURSIVE Reverse(_)
Reverse(q) == IF q = <<>> THEN <<>> ELSE Append(Reverse(Tail(q)), Head(q))

\* os.listdir: the names of the entries, in one of two orders
ListDir(entries, rev) == IF rev THEN Reverse(entries) ELSE entries

\* ctx.log.warning('rundir %s contains no results for target %s' % (...)):
\* the format and its two arguments
NoResultsWarning(rundir, targetName) ==
    <<"rundir %s contains no results for target %s", rundir, targetName>>

\* a filter that keeps entries of any kind
KeepEntryAnyKind(kind, name, names) ==
    names = <<>> \/ \E k \in 1..Len(names) : names[k] = name

\* os.path.isdir(instancedir) and (not instance_names or subdir in instance_names)
KeepEntry(kind, name, names) ==
    /\ kind = "dir"
    /\ (names = <<>> \/ \E k \in 1..Len(names) : names[k] = name)

\* a missing target directory that goes unreported
MissingTargetSilent(st, rundir) == st

\* the else branch: one warning, nothing appended
MissingTarget(st, rundir) ==
    [st EXCEPT !.warnings = Append(@, NoResultsWarning(rundir, TargetName))]

\* one iteration of `for rundir in rundirs`
DiscoverRoot(st, i, roots, names, rev) ==
    LET targetdir == Join(Rundir(i), TargetName)
        present == SelectSeq([n \in 1..Len(InstNames) |-> n],
                             LAMBDA n : roots[i].sub[n] # "absent")
        kept == SelectSeq(ListDir(present, rev),
                          LAMBDA n : KeepEntry(roots[i].sub[n], InstNames[n], names))
    IN  IF roots[i].target
        THEN [st EXCEPT !.instance_dirs =
                 @ \o [k \in 1..Len(kept) |-> Join(targetdir, InstNames[kept[k]])]]
        ELSE MissingTarget(st, Rundir(i))

RECURSIVE DiscoverFrom(_, _, _, _, _)
DiscoverFrom(st, i, roots, names, rev) ==
    IF i > Len(roots) THEN st
    ELSE DiscoverFrom(DiscoverRoot(st, i, roots, names, rev), i + 1, roots, names, rev)

\* one iteration of `for filename in os.listdir(idir)`: print('file:', path),
\* then pprint(self._parse_metadata(path)); open() of a directory raises
\* IsADirectoryError, and what _parse_metadata raises propagates
CollectEntry(st, idir, entry) ==
    LET path == Join(idir, entry.name)
        shown == Append(st.out, <<"file:", path>>)
        r == ParseMetadata(path, entry.lines)
    IN  IF st.exc # "none" THEN st
        ELSE IF entry.dir
        THEN [st EXCEPT !.out = shown, !.exc = "IsADirectoryError"]
        ELSE IF r.err
        THEN [st EXCEPT !.out = shown, !.exc = "ValueError",
                        !.warnings = @ \o r.warnings]
        ELSE [st EXCEPT !.out = Append(shown, <<"pprint", r.meta>>),
                        !.warnings = @ \o r.warnings]

RECURSIVE CollectDir(_, _, _)
CollectDir(st, idir, entries) ==
    IF entries = <<>> THEN st
    ELSE CollectDir(CollectEntry(st, idir, Head(entries)), idir, Tail(entries))

RECURSIVE CollectFrom(_, _, _, _)
CollectFrom(st, idirs, entries, rev) ==
    IF idirs = <<>> THEN st
    ELSE CollectFrom(CollectDir(st, Head(idirs), ListDir(entries, rev)),
                     Tail(idirs), entries, rev)

\* parse_rundirs(rundirs): discovery, then the loop over the instance directories
ParseRundirs ==
    /\ ~parsed.done
    /\ LET found == DiscoverFrom(NoParse, 1, rundirs, instance_names, order)
       IN  parsed' = [CollectFrom(found, found.instance_dirs, inside, order)
                         EXCEPT !.done = TRUE]
    /\ UNCHANGED <<rundirs, inside, order, instance_names, rend, namerVars,
                   runnerVars, codecVars>>

\* the tree, the listing order and the instance filter are the inputs
InitAgg ==
    /\ call = [r \in Runners |-> [pool |-> FALSE, onsuccess |-> FALSE]]
    /\ attr = [j \in Jobs |-> [runner |-> 1, hasOutfile |-> FALSE, teeout |-> FALSE]]
    /\ IdleRunner
    /\ IdleCodec
    /\ IdleNamer
    /\ rundirs \in [1..NRoots -> RootLayouts]
    /\ inside \in Listings
    /\ order \in BOOLEAN
    /\ instance_names \in Filters
    /\ parsed = NoParse
    /\ rend = NoRender

NextAgg == ParseRundirs

SpecAgg == InitAgg /\ [][NextAgg]_vars

(***************************************************************************)
(* BenchmarkReporter.report(mode), one action per statement.               *)
(***************************************************************************)
ModeBrief == <<"b", "r", "i", "e", "f">>
ModeFull == <<"f", "u", "l", "l">>
ModeCsv == <<"c", "s", "v">>
\* a mode a subclass of BenchmarkReporter may add, and a name nobody defines
ModeExt == <<"e", "x", "t">>
ModeXyz == <<"x", "y", "z">>
Modes == {ModeBrief, ModeFull, ModeCsv, ModeExt, ModeXyz, <<>>}

\* what the body of the subclass's report_ext does; "none": there is no subclass
ExtBodies == {"none", "return", "print", "AttributeError", "KeyError"}

\* sys.stdout when report(mode) is called
Streams == {"terminal", "logfile"}

\* 'report_' + mode
MethodName(mode) == <<"r", "e", "p", "o", "r", "t", "_">> \o mode

\* the attributes of the reporter whose name starts with report_
Methods(ext) ==
    {MethodName(ModeBrief), MethodName(ModeFull), MethodName(ModeCsv)}
    \cup (IF ext = "none" THEN {} ELSE {MethodName(ModeExt)})

\* getattr(self, 'report_' + mode) finds a method
HasRenderer(mode, ext) == MethodName(mode) \in Methods(ext)

\* what the body of the method does: report_brief passes, report_full and
\* report_csv raise NotImplementedError
BodyOf(mode, ext) ==
    CASE mode = ModeBrief -> "return"
      [] mode \in {ModeFull, ModeCsv} -> "NotImplementedError"
      [] OTHER -> ext

\* a handler whose message leaves the mode out
UnknownModeUnnamed(r) ==
    [r EXCEPT !.pc = "unwinding", !.exc = "FatalError",
              !.msg = <<"unknown reporting mode">>]

\* except AttributeError: raise FatalError('unknown reporting mode "%s"' % mode)
UnknownMode(r) ==
    [r EXCEPT !.pc = "unwinding", !.exc = "FatalError",
              !.msg = <<"unknown reporting mode \"%s\"", r.mode>>]

renderRest == <<rundirs, inside, order, instance_names, parsed, namerVars,
                runnerVars, codecVars>>

\* with redirect_stdout(self.outfile): __enter__
RenderEnter ==
    /\ rend.pc = "idle"
    /\ rend' = [rend EXCEPT !.pc = "redirected", !.saved = rend.stdout,
                            !.stdout = "outfile"]
    /\ UNCHANGED renderRest

\* getattr(self, 'report_' + mode), inside the try
RenderLookup ==
    /\ rend.pc = "redirected"
    /\ rend' = IF HasRenderer(rend.mode, rend.body)
               THEN [rend EXCEPT !.pc = "running"]
               ELSE UnknownMode(rend)
    /\ UNCHANGED renderRest

\* the call of the method that getattr returned, inside the same try
RenderBody ==
    /\ rend.pc = "running"
    /\ LET b == BodyOf(rend.mode, rend.body)
           r == [rend EXCEPT !.ran = TRUE]
       IN  rend' =
             CASE b = "return" -> [r EXCEPT !.pc = "unwinding"]
               [] b = "print" ->
                    IF r.stdout = "outfile"
                    THEN [r EXCEPT !.pc = "unwinding", !.sink = Append(@, RawOutput)]
                    ELSE [r EXCEPT !.pc = "unwinding", !.escaped = Append(@, RawOutput)]
               [] b = "AttributeError" -> UnknownMode(r)
               [] OTHER -> [r EXCEPT !.pc = "unwinding", !.exc = b]
    /\ UNCHANGED renderRest

\* with redirect_stdout(self.outfile): __exit__, on return and on exception
RenderExit ==
    /\ rend.pc = "unwinding"
    /\ rend' = [rend EXCEPT !.pc = IF rend.exc = "none" THEN "returned" ELSE "raised",
                            !.stdout = rend.saved]
    /\ UNCHANGED renderRest

\* the mode, the subclass's renderer and the current sys.stdout are the inputs
InitRender ==
    /\ call = [r \in Runners |-> [pool |-> FALSE, onsuccess |-> FALSE]]
    /\ attr = [j \in Jobs |-> [runner |-> 1, hasOutfile |-> FALSE, teeout |-> FALSE]]
    /\ IdleRunner
    /\ IdleCodec
    /\ IdleNamer
    /\ rundirs = <<>>
    /\ inside = <<>>
    /\ order = FALSE
    /\ instance_names = <<>>
    /\ parsed = NoParse
    /\ \E m \in Modes : \E b \in ExtBodies : \E o \in Streams :
          rend = [NoRender EXCEPT !.mode = m, !.body = b, !.before = o, !.stdout = o]

NextRender == RenderEnter \/ RenderLookup \/ RenderBody \/ RenderExit

SpecRender == InitRender /\ [][NextRender]_vars

(***************************************************************************)
(* Run directories: BenchmarkRunner.__init__ / _make_rundir, and the same  *)
(* naming in SPEC2006.run.                                                 *)
(***************************************************************************)
DecChars == <<"0", "1", "2", "3", "4", "5", "6", "7", "8", "9">>
Dec(d) == DecChars[d + 1]
\* %m, %d, %H, %M, %S: two digits, zero-padded; %Y: four digits
Pad2(n) == <<Dec(n \div 10), Dec(n % 10)>>
Pad4(n) == <<Dec(n \div 1000), Dec((n \div 100) % 10)>> \o Pad2(n % 100)

\* strftime('run-%Y-%m-%d.%H:%M:%S')
Strftime(ts) ==
    <<"r", "u", "n", "-">> \o Pad4(ts.year) \o <<"-">> \o Pad2(ts.month)
    \o <<"-">> \o Pad2(ts.day) \o <<".">> \o Pad2(ts.hour) \o <<":">>
    \o Pad2(ts.minute) \o <<":">> \o Pad2(ts.second)

\* ctx.timestamp, or what datetime.now() returns
Stamps ==
    {[year |-> 2019, month |-> 3, day |-> 7, hour |-> 9, minute |-> 5, second |-> 0],
     [year |-> 2020, month |-> 11, day |-> 30, hour |-> 23, minute |-> 59, second |-> 58]}

\* ctx.paths.pool_results
PoolResults == << <<"r", "e", "s", "u", "l", "t", "s">> >>

\* SPEC2006.name
Spec2006Name == <<"s", "p", "e", "c", "2", "0", "0", "6">>
TargetNames == {TargetName, Spec2006Name}
InstanceNames == {InstanceName(1), InstanceName(2)}
\* the filename a BenchmarkRunner is given, and the benchmarks of SPEC2006.run
Filename == <<"f">>
Benchmarks == << <<"b", "1">>, <<"b", "2">> >>

\* os.path.join(pool_results, dirname, target name, instance name)
RundirPath(stamp, targetName, instanceName) ==
    PoolResults \o <<Strftime(stamp), targetName, instanceName>>

\* os.makedirs(path) without exist_ok: an existing path is an error
MakeDirsStrict(ds, path) ==
    IF path \in ds THEN [err |-> TRUE, dirs |-> ds]
    ELSE [err |-> FALSE, dirs |-> ds \cup {SubSeq(path, 1, k) : k \in 1..Len(path)}]

\* os.makedirs(path, exist_ok=True) on a tree of directories: the path and
\* every missing parent are created, an existing directory is left alone
MakeDirs(ds, path) ==
    [err |-> FALSE, dirs |-> ds \cup {SubSeq(path, 1, k) : k \in 1..Len(path)}]

namerRest == <<aggVars, runnerVars, codecVars>>

\* BenchmarkRunner(ctx, target, instance, filename): _make_rundir, then outfile
NewRunner ==
    /\ Len(made) < MaxWriters
    /\ \E ts \in Stamps : \E t \in TargetNames : \E i \in InstanceNames :
          LET path == RundirPath(ts, t, i)
              r == MakeDirs(dirs, path)
          IN  /\ dirs' = r.dirs
              /\ made' = Append(made, [by |-> "BenchmarkRunner", stamp |-> ts,
                                       target |-> t, instance |-> i, err |-> r.err,
                                       rundir |-> path,
                                       outfile |-> Join(path, Filename)])
    /\ UNCHANGED namerRest

RECURSIVE RunBenchmarks(_, _, _, _)
\* for bench in benchmarks: os.makedirs(outdir, exist_ok=True); outfile = ...
RunBenchmarks(st, benchmarks, ts, i) ==
    IF benchmarks = <<>> THEN st
    ELSE LET path == RundirPath(ts, Spec2006Name, i)
             r == MakeDirs(st.dirs, path)
         IN  RunBenchmarks(
                 [dirs |-> r.dirs,
                  made |-> Append(st.made,
                                  [by |-> "SPEC2006.run", stamp |-> ts,
                                   target |-> Spec2006Name, instance |-> i,
                                   err |-> r.err, rundir |-> path,
                                   outfile |-> Join(path, Head(benchmarks))])],
                 Tail(benchmarks), ts, i)

\* SPEC2006.run with a pool: the timestamp is read once, then one output
\* directory request per benchmark
Spec2006Run ==
    /\ Len(made) + Len(Benchmarks) <= MaxWriters
    /\ \E now \in Stamps : \E i \in InstanceNames :
          LET st == RunBenchmarks([dirs |-> dirs, made |-> made], Benchmarks, now, i)
          IN  dirs' = st.dirs /\ made' = st.made
    /\ UNCHANGED namerRest

InitNamer ==
    /\ call = [r \in Runners |-> [pool |-> FALSE, onsuccess |-> FALSE]]
    /\ attr = [j \in Jobs |-> [runner |-> 1, hasOutfile |-> FALSE, teeout |-> FALSE]]
    /\ IdleRunner
    /\ IdleCodec
    /\ IdleAgg
    /\ IdleNamer

NextNamer == NewRunner \/ Spec2006Run

SpecNamer == InitNamer /\ [][NextNamer]_vars

(***************************************************************************)
(* Vocabulary of the properties.                                           *)
(***************************************************************************)
\* the metadata lines job j's flush wrote, as they sit in `lines`
MetaBy(lines, j) ==
    LET Mine(l) == l.by = j /\ StartsWith(l.text, prefix)
    IN  SelectSeq(lines, Mine)

\* the metadata block of job j
Block(j) ==
    Tagged(j, ReportLines(TargetName, InstanceName(attr[j].runner), RecOf(j)))

\* every line of `lines` that is a begin marker
Begins(lines) ==
    LET IsBegin(l) == l.text = BeginLine
    IN  SelectSeq(lines, IsBegin)

Terminated(j) == pc[j] \in {"done", "raised"}

\* job j's flush returned normally
Flushed(j) == pc[j] \in {"flushed", "done"}

(***************************************************************************)
(* C1: _print_footer runs exactly once per completed job, and never for a  *)
(* job that has not completed: no job is flushed twice, a job still        *)
(* running has not been flushed, and once the command returned (sync) or   *)
(* the continuation started (pool) the job has been flushed exactly once.  *)
(***************************************************************************)
FlushOncePerCompletedJob ==
    \A j \in Jobs :
        /\ flushes[j] <= 1
        /\ pc[j] = "running" => flushes[j] = 0
        /\ pc[j] \notin {"running", "completed"} => flushes[j] = 1

\* a synchronous and a delegated job have both been flushed, the delegated first
FlushOnceWitness ==
    \E j, k \in Jobs :
        /\ ~call[attr[j].runner].pool /\ call[attr[k].runner].pool
        /\ pc[k] = "done" /\ flushes[k] = 1
        /\ pc[j] = "flushed" /\ flushes[j] = 1

Encodable(d) ==
    \A i \in 1..Len(d) :
        /\ FindSep(d[i][1]) = 0
        /\ \A n \in 1..Len(d[i][2]) : d[i][2][n] # "\n"

RoundTripLaw ==
    (cphase = "roundtrip" /\ Encodable(data)) =>
        (~result.err /\ DictEq(result.meta, data))

(***************************************************************************)
(* C5: two jobs with distinct declared output files whose continuations    *)
(* interleave: once both are over, each file holds the whole block of its  *)
(* own job and no line of the other's.                                     *)
(***************************************************************************)
OwnFileOwnBlock ==
    (/\ \A j \in Jobs : pc[j] = "done" /\ attr[j].hasOutfile
     /\ \A j, k \in Jobs : j # k => attr[j].runner # attr[k].runner)
        => \A j, k \in Jobs :
               MetaBy(fs[attr[j].runner], k) = IF k = j THEN Block(j) ELSE <<>>

(***************************************************************************)
(* C6: jobs without output file and without tee flag whose continuations   *)
(* interleave: once all are over, the run-log holds every job's metadata   *)
(* lines, whole and in order.                                              *)
(***************************************************************************)
RunLogIntact ==
    (\A j \in Jobs : pc[j] = "done" /\ ~attr[j].hasOutfile /\ ~attr[j].teeout)
        => \A j \in Jobs : MetaBy(fs[RunLog], j) = Block(j)

(***************************************************************************)
(* C7: a result file holds at most one metadata block, also when several   *)
(* job handles of one run() call declare the same output file.             *)
(***************************************************************************)
AtMostOneBlockPerFile ==
    \A p \in Runners : Len(Begins(fs[p])) <= 1

(***************************************************************************)
(* C8: when opening the declared output file fails during the flush, the   *)
(* error escapes (it is not swallowed: a flush that returns has written    *)
(* its block), no metadata line of the job is written anywhere, and the    *)
(* caller's onsuccess is not invoked for the job.                          *)
(***************************************************************************)
OpenFailureIsFatal ==
    \A j \in Jobs :
        /\ exc[j] = "OSError" =>
              /\ pc[j] = "raised"
              /\ onsCalled[j] = 0
              /\ MetaBy(stream, j) = <<>>
              /\ \A p \in Paths : MetaBy(fs[p], j) = <<>>
              /\ \A k \in Jobs : MetaBy(hBuf[k], j) = <<>>
        /\ (Flushed(j) /\ attr[j].hasOutfile) =>
              (exc[j] = "none" /\ MetaBy(fs[attr[j].runner], j) = Block(j))
        /\ onsCalled[j] > 0 => exc[j] = "none"

\* the open failed for a pool job that had an onsuccess continuation, after
\* another job was flushed
OpenFailureWitness ==
    \E j, k \in Jobs :
        /\ exc[j] = "OSError" /\ pc[j] = "raised"
        /\ call[attr[j].runner] = [pool |-> TRUE, onsuccess |-> TRUE]
        /\ pc[k] = "done"

(***************************************************************************)
(* C9: a duplicate key is never fatal and the last value wins: the scan    *)
(* stops only at a prefixed line without ': '; it warns exactly once, with *)
(* the key and the file, for each scanned key/value line whose key         *)
(* occurred earlier; and the record it returns gives each key the value of *)
(* the last line with that key.                                            *)
(***************************************************************************)
\* line i of the text starts with the prefix
Prefixed(i) == StartsWith(RStrip(text[i]), prefix)
\* what follows the prefix and one more character
Payload(i) == Slice(RStrip(text[i]), Len(prefix) + 1)
\* the prefixed lines that cannot be split into key and value
BadLines == {i \in 1..Len(text) : Prefixed(i) /\ FindSep(Payload(i)) = 0}
\* the lines the scan gets through
Scanned ==
    IF BadLines = {} THEN 1..Len(text)
    ELSE 1..((CHOOSE i \in BadLines : \A k \in BadLines : i <= k) - 1)
KVScanned == {i \in Scanned : Prefixed(i)}
KeyAt(i) == SubSeq(Payload(i), 1, FindSep(Payload(i)) - 1)
ValueAt(i) == SubSeq(Payload(i), FindSep(Payload(i)) + 2, Len(Payload(i)))
Duplicates == {i \in KVScanned : \E k \in KVScanned : k < i /\ KeyAt(k) = KeyAt(i)}
NthDuplicate(n) ==
    CHOOSE i \in Duplicates : Cardinality({k \in Duplicates : k <= i}) = n

IsMarker(l) == l \in {BeginLine, EndLine}
IsKeyValue(l) ==
    /\ StartsWith(l, prefix \o <<" ">>)
    /\ FindSep(Slice(RStrip(l), Len(prefix) + 1)) # 0
WireFormat(t) ==
    \A i \in 1..Len(t) :
        ~StartsWith(t[i], prefix) \/ IsMarker(t[i]) \/ IsKeyValue(t[i])

DecodeIsTotal ==
    (cphase = "decoded" /\ WireFormat(text)) =>
        /\ ~result.err
        /\ DictKeys(result.meta)
               = {KeyAt(i) : i \in {k \in 1..Len(text) : IsKeyValue(text[k])}}

(***************************************************************************)
(* Vocabulary of the aggregator's properties.                              *)
(***************************************************************************)
InSeq(x, q) == \E k \in 1..Len(q) : q[k] = x
Count(q, x) == Cardinality({k \in 1..Len(q) : q[k] = x})
Roots == 1..Len(rundirs)
Names == 1..Len(InstNames)
\* <root i>/<target>/<n-th name>
InstanceDir(i, n) == Join(Join(Rundir(i), TargetName), InstNames[n])
\* the n-th name passes the instance filter
Wanted(n) == instance_names = <<>> \/ InSeq(InstNames[n], instance_names)
HasMetadata(entry) == \E k \in 1..Len(entry.lines) : StartsWith(entry.lines[k], prefix)
RegularFiles == {k \in 1..Len(inside) : ~inside[k].dir}
Shown == {k \in 1..Len(parsed.out) : parsed.out[k][1] = "file:"}
Decoded == {k \in 1..Len(parsed.out) : parsed.out[k][1] = "pprint"}

(***************************************************************************)
(* C11: collect yields one entry (path, decoded record) per regular file   *)
(* directly inside each discovered instance directory: with N such files,  *)
(* M of them without metadata lines, N entries, M of them with an empty    *)
(* record, and no error; an entry that is not a regular file yields no     *)
(* entry and no error.                                                     *)
(***************************************************************************)
CollectOnePerFile ==
    parsed.done =>
        LET nd == Len(parsed.instance_dirs)
        IN  /\ parsed.exc = "none"
            /\ Cardinality(Shown) = nd * Cardinality(RegularFiles)
            /\ Cardinality(Decoded) = nd * Cardinality(RegularFiles)
            /\ Cardinality({k \in Decoded : parsed.out[k][2] = <<>>})
                   = nd * Cardinality({k \in RegularFiles : ~HasMetadata(inside[k])})
            /\ \A d \in 1..nd : \A k \in RegularFiles :
                   InSeq(<<"file:", Join(parsed.instance_dirs[d], inside[k].name)>>,
                         parsed.out)

DiscoveryKeepsFiltered ==
    parsed.done =>
        /\ \A i \in Roots : rundirs[i].target =>
              \A n \in Names :
                  Count(parsed.instance_dirs, InstanceDir(i, n))
                      = IF rundirs[i].sub[n] = "dir" /\ Wanted(n) THEN 1 ELSE 0
        /\ \A k \in 1..Len(parsed.instance_dirs) :
              \E i \in Roots : \E n \in Names :
                  parsed.instance_dirs[k] = InstanceDir(i, n)

\* root 1 holds directories x, y, z, root 2 a file named y; the filter is {y}
\* and only <root 1>/<target>/y is kept
DiscoveryWitness ==
    /\ parsed.done
    /\ instance_names = <<YName>>
    /\ rundirs[1].target /\ \A n \in Names : rundirs[1].sub[n] = "dir"
    /\ rundirs[2].target /\ rundirs[2].sub[2] = "file"
    /\ parsed.instance_dirs = <<InstanceDir(1, 2)>>

(***************************************************************************)
(* C14: report(mode) dispatches by name: report('brief') succeeds, and for *)
(* a name that matches no rendering mode the call fails with a FatalError  *)
(* whose message names the mode, without any renderer having run.          *)
(***************************************************************************)
RenderOver == rend.pc \in {"returned", "raised"}

RenderDispatches ==
    /\ (RenderOver /\ rend.mode = ModeBrief) =>
          rend.pc = "returned" /\ rend.ran /\ rend.exc = "none"
    /\ ~HasRenderer(rend.mode, rend.body) =>
          /\ ~rend.ran
          /\ RenderOver =>
                /\ rend.pc = "raised"
                /\ rend.exc = "FatalError"
                /\ Len(rend.msg) = 2 /\ rend.msg[2] = rend.mode

\* report('xyz') has failed with the error naming xyz, no renderer has run
UnknownModeWitness ==
    /\ rend.pc = "raised"
    /\ rend.mode = ModeXyz
    /\ rend.exc = "FatalError"
    /\ rend.msg[2] = ModeXyz
    /\ ~rend.ran

(***************************************************************************)
(* C18: report(mode) reports an unknown mode only when no rendering mode   *)
(* of that name exists: an error raised inside an existing renderer, an    *)
(* AttributeError included, is never reported as an unknown mode; and in   *)
(* every outcome sys.stdout is again what it was before the call.          *)
(***************************************************************************)
UnknownOnlyWhenUnknown ==
    RenderOver =>
        /\ rend.exc = "FatalError" => ~HasRenderer(rend.mode, rend.body)
        /\ rend.ran /\ BodyOf(rend.mode, rend.body) \notin {"return", "print"}
               => rend.exc = BodyOf(rend.mode, rend.body)
        /\ rend.stdout = rend.before

(***************************************************************************)
(* C15: report(data) writes the begin marker line, then one line           *)
(* `<prefix> <key>: <value>` per key of data, in insertion order, then the *)
(* end marker line.  As claimed: and no line for a key the caller did not  *)
(* supply.  As amended: after the begin marker come the runner's own       *)
(* target and instance lines, and the values hold no newline.              *)
(***************************************************************************)
\* one line per entry of the dict d, in its order
EntryLines(d) == [i \in 1..Len(d) |-> KVLine(d[i][1], d[i][2])]
NoNewline(d) == \A i \in 1..Len(d) : \A k \in 1..Len(d[i][2]) : d[i][2][k] # "\n"
KeyTarget == <<"t", "a", "r", "g", "e", "t">>
KeyInstance == <<"i", "n", "s", "t", "a", "n", "c", "e">>

DigitVal(c) == CHOOSE d \in 0..9 : Dec(d) = c
RECURSIVE NumberAt(_, _, _)
\* the decimal number written at positions from..to of the name
NumberAt(name, from, to) ==
    IF to < from THEN 0
    ELSE 10 * NumberAt(name, from, to - 1) + DigitVal(name[to])

\* name is run-YYYY-MM-DD.HH:MM:SS for the timestamp ts
NamesStamp(name, ts) ==
    /\ Len(name) = 23
    /\ SubSeq(name, 1, 4) = <<"r", "u", "n", "-">>
    /\ <<name[9], name[12], name[15], name[18], name[21]>> = <<"-", "-", ".", ":", ":">>
    /\ NumberAt(name, 5, 8) = ts.year
    /\ NumberAt(name, 10, 11) = ts.month
    /\ NumberAt(name, 13, 14) = ts.day
    /\ NumberAt(name, 16, 17) = ts.hour
    /\ NumberAt(name, 19, 20) = ts.minute
    /\ NumberAt(name, 22, 23) = ts.second

RundirDeterministic ==
    \A a \in 1..Len(made) :
        /\ ~made[a].err
        /\ Len(made[a].rundir) = Len(PoolResults) + 3
        /\ SubSeq(made[a].rundir, 1, Len(PoolResults)) = PoolResults
        /\ NamesStamp(made[a].rundir[Len(PoolResults) + 1], made[a].stamp)
        /\ made[a].rundir[Len(PoolResults) + 2] = made[a].target
        /\ made[a].rundir[Len(PoolResults) + 3] = made[a].instance
        /\ \A k \in 1..Len(made[a].rundir) : SubSeq(made[a].rundir, 1, k) \in dirs
        /\ \A b \in 1..Len(made) :
               (made[b].stamp = made[a].stamp /\ made[b].target = made[a].target
                   /\ made[b].instance = made[a].instance)
                   => made[b].rundir = made[a].rundir

\* two runners with the same timestamp, target and instance, and a third with
\* another timestamp: the first two share their directory
RundirWitness ==
    /\ Len(made) = 3
    /\ \A a \in 1..3 : made[a].by = "BenchmarkRunner" /\ ~made[a].err
    /\ made[1].stamp = made[2].stamp /\ made[3].stamp # made[1].stamp
    /\ \A a \in 1..3 : made[a].target = TargetName /\ made[a].instance = InstanceName(1)
    /\ made[1].rundir = made[2].rundir
    /\ made[3].rundir # made[1].rundir
    /\ made[2].rundir \in dirs

(***************************************************************************)
(* C17: whenever _print_footer or the caller's onsuccess runs for a job,   *)
(* job.runner is already set to the runner that launched it, also for a    *)
(* pool job that completes before the loop over the handles reaches it.    *)
(***************************************************************************)
BackrefSetBeforeContinuation ==
    \A j \in Jobs : (flushes[j] > 0 \/ onsCalled[j] > 0) => runnerSet[j]

====
